---- MODULE Spec2Model ----
(***************************************************************************)
(* Model of app.py: the conversion of a fixed-layout text report into a    *)
(* summary document (parse_txt, eur_fmt, build_pdf, output_path_for,       *)
(* process_file, main).                                                    *)
(*                                                                         *)
(* A Python str is modelled as a sequence of one-character strings, so     *)
(* that the regular expression, the numeric conversions, the number        *)
(* formatting and the path functions are computed character by character.  *)
(* A non-ASCII character is written by its code point, e.g. "U+20AC".      *)
(***************************************************************************)
EXTENDS Integers, Sequences, FiniteSets, TLC

VARIABLES
    argv,      \* sys.argv[1:], a sequence of paths
    fs,        \* the input files: absolute path -> text content
    docs,      \* the documents on disk: absolute path -> document
    pc,        \* position of the program
    files,     \* main: the arguments that name an existing file
    i,         \* main: index in files of the file of the current iteration
    created,   \* main: the paths returned by process_file so far
    stdout,    \* the lines printed so far
    exit,      \* exit status of the process (-1 while running)
    err,       \* the exception in flight ("" when none)
    matches,   \* parse_txt: the result of ROW_RE.findall(text)
    df,        \* the DataFrame returned by parse_txt
    out_pdf,   \* process_file: the derived output path
    totale,    \* build_pdf: sum of TOTALE JOB
    iva,       \* build_pdf: the tax (a Decimal)
    ivato,     \* build_pdf: total plus tax (a Decimal)
    calls,     \* the stages entered so far, as <<stage, index in files>>
    val,       \* eur_fmt: its argument (a Decimal)
    s          \* eur_fmt: its result

vars == <<argv, fs, docs, pc, files, i, created, stdout, exit, err, matches,
          df, out_pdf, totale, iva, ivato, calls, val, s>>

----------------------------------------------------------------------------
(* Bounds of the model. *)

MaxLines == 3      \* lines of a generated input text
MaxArgs == 3       \* command-line arguments of a generated batch
MaxFmtCoef == 25   \* largest generated coefficient of an eur_fmt argument

----------------------------------------------------------------------------
(* Characters. *)

Digits == <<"0", "1", "2", "3", "4", "5", "6", "7", "8", "9">>

DigitSet == {Digits[k] : k \in 1..10}

Letters == {"a", "b", "c", "d", "f", "g", "h", "i", "l", "n", "o", "p",
            "r", "s", "t", "v", "x", "z", "e", "G", "R", "T", "O"}

\* \d of the re module
IsDigit(c) == c \in DigitSet

\* \s of the re module, over the characters of the model
IsSpace(c) == c \in {" ", "\t", "\n"}

\* \w of the re module, over the characters of the model
IsWord(c) == c \in DigitSet \cup Letters \cup {"_"}

DigitVal(c) == (CHOOSE k \in 1..10 : Digits[k] = c) - 1

RECURSIVE Pow10(_)
Pow10(n) == IF n = 0 THEN 1 ELSE 10 * Pow10(n - 1)

\* int(s) / pd.to_numeric of one all-digit string
RECURSIVE DigitsToNat(_)
DigitsToNat(str) ==
    IF str = <<>> THEN 0
    ELSE 10 * DigitsToNat(SubSeq(str, 1, Len(str) - 1)) + DigitVal(str[Len(str)])

\* whether pd.to_numeric can convert the string: an optional sign and digits
IsNumeric(str) ==
    LET body == IF str # <<>> /\ str[1] = "-" THEN Tail(str) ELSE str
    IN  body # <<>> /\ \A k \in 1..Len(body) : IsDigit(body[k])

\* pd.to_numeric of one numeric string
ToNumeric(str) ==
    IF str[1] = "-" THEN 0 - DigitsToNat(Tail(str)) ELSE DigitsToNat(str)

\* str(n) for n >= 0
RECURSIVE NatToStr(_)
NatToStr(n) ==
    IF n < 10 THEN <<Digits[n + 1]>>
    ELSE NatToStr(n \div 10) \o <<Digits[(n % 10) + 1]>>

\* str(n) / f"{n}" of an int
IntToStr(n) == IF n < 0 THEN <<"-">> \o NatToStr(0 - n) ELSE NatToStr(n)

\* lexicographic order of two strings of digits and signs (code point order)
CharOrd(c) == IF c = "-" THEN 0 ELSE 1 + DigitVal(c)

RECURSIVE StrLess(_, _)
StrLess(a, b) ==
    IF b = <<>> THEN FALSE
    ELSE IF a = <<>> THEN TRUE
    ELSE IF a[1] # b[1] THEN CharOrd(a[1]) < CharOrd(b[1])
    ELSE StrLess(Tail(a), Tail(b))

----------------------------------------------------------------------------
(* ROW_RE = ^\s*(\d{7})\s+(\d+)\s+(\d+)\s+(-?\d+)\b with re.MULTILINE. *)

RECURSIVE SkipSpace(_, _)
SkipSpace(t, p) ==
    IF p <= Len(t) /\ IsSpace(t[p]) THEN SkipSpace(t, p + 1) ELSE p

RECURSIVE SkipDigits(_, _)
SkipDigits(t, p) ==
    IF p <= Len(t) /\ IsDigit(t[p]) THEN SkipDigits(t, p + 1) ELSE p

\* ^ under re.MULTILINE: the start of the text or just after a newline
AtLineStart(t, p) == p = 1 \/ t[p - 1] = "\n"

\* \b after a digit: the end of the text or a non-word character
WordBoundaryAfter(t, p) == p > Len(t) \/ ~IsWord(t[p])

\* The match of ROW_RE that starts at position p, if any.  Every quantifier
\* is greedy over a character class disjoint from what follows it, so a
\* match exists only if the greedy one does.
ROW_RE(t, p) ==
    LET a == SkipSpace(t, p)                  \* \s*
        b == SkipDigits(t, a)                 \* (\d{7})
        c == SkipSpace(t, b)                  \* \s+
        d == SkipDigits(t, c)                 \* (\d+)
        e == SkipSpace(t, d)                  \* \s+
        f == SkipDigits(t, e)                 \* (\d+)
        g == SkipSpace(t, f)                  \* \s+
        h == IF g <= Len(t) /\ t[g] = "-" THEN g + 1 ELSE g    \* -?
        k == SkipDigits(t, h)                 \* \d+
        ok == /\ AtLineStart(t, p)
              /\ b - a = 7
              /\ c > b
              /\ d > c
              /\ e > d
              /\ f > e
              /\ g > f
              /\ k > h
              /\ WordBoundaryAfter(t, k)
    IN  [ok |-> ok,
         end |-> k,
         groups |-> IF ok
                    THEN <<SubSeq(t, a, b - 1), SubSeq(t, c, d - 1),
                           SubSeq(t, e, f - 1), SubSeq(t, g, k - 1)>>
                    ELSE <<>>]

\* ROW_RE.findall(text): the non-overlapping matches, scanning left to right
RECURSIVE FindAllFrom(_, _)
FindAllFrom(t, p) ==
    IF p > Len(t) THEN <<>>
    ELSE LET m == ROW_RE(t, p)
         IN  IF m.ok THEN <<m.groups>> \o FindAllFrom(t, m.end)
             ELSE FindAllFrom(t, p + 1)

FindAll(t) == FindAllFrom(t, 1)

----------------------------------------------------------------------------
(* parse_txt: the DataFrame, a sequence of rows.                           *)

\* pd.DataFrame(matches, columns=HEADER) and the four column conversions
ToRow(m) ==
    [NUMERO_GARANZIA |-> m[1],
     SUFFISSO |-> m[2],
     JOB |-> IF IsNumeric(m[3]) THEN ToNumeric(m[3]) ELSE 0,
     TOTALE_JOB |-> IF IsNumeric(m[4]) THEN ToNumeric(m[4]) ELSE 0]

ToFrame(ms) == [k \in 1..Len(ms) |-> ToRow(ms[k])]

DedupKey(r) == <<r.NUMERO_GARANZIA, r.SUFFISSO, r.JOB>>

\* a row is kept when no earlier row has its key
KeepFirst(rows, k) == \A j \in 1..(k - 1) : DedupKey(rows[j]) # DedupKey(rows[k])

RECURSIVE DropFrom(_, _)
DropFrom(rows, k) ==
    IF k > Len(rows) THEN <<>>
    ELSE (IF KeepFirst(rows, k) THEN <<rows[k]>> ELSE <<>>) \o DropFrom(rows, k + 1)

\* mutant: no row is dropped
DropDuplicates_none(rows) == rows

\* mutant: keep="last"
DropDuplicates_keepLast(rows) ==
    LET KeepLast(k) ==
            \A j \in (k + 1)..Len(rows) : DedupKey(rows[j]) # DedupKey(rows[k])
        kept == {k \in 1..Len(rows) : KeepLast(k)}
        Nth(n) == CHOOSE k \in kept : Cardinality({j \in kept : j < k}) = n - 1
    IN  [n \in 1..Cardinality(kept) |-> rows[Nth(n)]]

\* df.drop_duplicates(subset=[...], keep="first")
DropDuplicates(rows) == DropFrom(rows, 1)

\* key=lambda c: pd.to_numeric(c, errors="ignore") on a column of strings:
\* the column as numbers when every value converts, else the column unchanged
NumericColumn(rows, col) == \A k \in 1..Len(rows) : IsNumeric(rows[k][col])

\* mutant: the key function is dropped, the column is compared as text
ColLess_asText(rows, r, q, col) == StrLess(r[col], q[col])

\* r sorts strictly before q on a column of strings
ColLess(rows, r, q, col) ==
    IF NumericColumn(rows, col)
    THEN ToNumeric(r[col]) < ToNumeric(q[col])
    ELSE StrLess(r[col], q[col])

ColEq(rows, r, q, col) ==
    IF NumericColumn(rows, col)
    THEN ToNumeric(r[col]) = ToNumeric(q[col])
    ELSE r[col] = q[col]

\* the order of by=["NUMERO GARANZIA", "SUFFISSO", "JOB"] under the key
RowLess(rows, r, q) ==
    \/ ColLess(rows, r, q, "NUMERO_GARANZIA")
    \/ /\ ColEq(rows, r, q, "NUMERO_GARANZIA")
       /\ \/ ColLess(rows, r, q, "SUFFISSO")
          \/ /\ ColEq(rows, r, q, "SUFFISSO")
             /\ r.JOB < q.JOB

\* where a row goes in a sorted prefix: before the first row that sorts
\* strictly after it (rows that compare equal keep their order)
RECURSIVE InsertAt(_, _, _, _)
InsertAt(rows, sorted, r, k) ==
    IF k > Len(sorted) THEN Append(sorted, r)
    ELSE IF RowLess(rows, r, sorted[k])
         THEN SubSeq(sorted, 1, k - 1) \o <<r>> \o SubSeq(sorted, k, Len(sorted))
         ELSE InsertAt(rows, sorted, r, k + 1)

RECURSIVE SortFrom(_, _, _)
SortFrom(rows, sorted, k) ==
    IF k > Len(rows) THEN sorted
    ELSE SortFrom(rows, InsertAt(rows, sorted, rows[k], 1), k + 1)

\* df.sort_values(by=[...], key=...).reset_index(drop=True): the stable
\* multi-column sort of pandas
SortValues(rows) == SortFrom(rows, <<>>, 1)

\* lines 40 to 47 of parse_txt: the frame, deduplicated and sorted
Normalized(ms) == SortValues(DropDuplicates(ToFrame(ms)))

----------------------------------------------------------------------------
(* decimal.Decimal: sign (1 when negative), coefficient and exponent.      *)

Decimal(sign, coef, exp) == [sign |-> sign, coef |-> coef, exp |-> exp]

\* Decimal(n) of an int
DecimalOfInt(n) == IF n < 0 THEN Decimal(1, 0 - n, 0) ELSE Decimal(0, n, 0)

\* Decimal("0.22")
Dec022 == Decimal(0, 22, 0 - 2)

\* Decimal("0.01")
Dec001 == Decimal(0, 1, 0 - 2)

\* a * b
DecMul(a, b) == Decimal((a.sign + b.sign) % 2, a.coef * b.coef, a.exp + b.exp)

\* the value of a as a signed multiple of 10^e, for e <= a.exp
ScaledTo(a, e) ==
    (IF a.sign = 1 THEN 0 - a.coef ELSE a.coef) * Pow10(a.exp - e)

\* a + b
DecAdd(a, b) ==
    LET e == IF a.exp < b.exp THEN a.exp ELSE b.exp
        n == ScaledTo(a, e) + ScaledTo(b, e)
    IN  IF n < 0 THEN Decimal(1, 0 - n, e)
        ELSE IF n > 0 THEN Decimal(0, n, e)
        ELSE Decimal(IF a.sign = 1 /\ b.sign = 1 THEN 1 ELSE 0, 0, e)

\* ROUND_HALF_UP of coef / 10^k: a half or more rounds away from zero
RoundHalfUp(coef, k) ==
    (coef \div Pow10(k)) + (IF 2 * (coef % Pow10(k)) >= Pow10(k) THEN 1 ELSE 0)

\* a.quantize(q, rounding=ROUND_HALF_UP)
Quantize(a, q) ==
    IF a.exp >= q.exp
    THEN Decimal(a.sign, a.coef * Pow10(a.exp - q.exp), q.exp)
    ELSE Decimal(a.sign, RoundHalfUp(a.coef, q.exp - a.exp), q.exp)

----------------------------------------------------------------------------
(* eur_fmt *)

\* the "," option of the format specification: groups of three digits
RECURSIVE GroupThousands(_)
GroupThousands(ds) ==
    IF Len(ds) <= 3 THEN ds
    ELSE GroupThousands(SubSeq(ds, 1, Len(ds) - 3)) \o <<",">>
         \o SubSeq(ds, Len(ds) - 2, Len(ds))

\* f"{q:,.2f}" of a Decimal with two decimal places
FormatGrouped2f(q) ==
    (IF q.sign = 1 THEN <<"-">> ELSE <<>>)
    \o GroupThousands(NatToStr(q.coef \div 100))
    \o <<".">>
    \o <<Digits[((q.coef % 100) \div 10) + 1], Digits[(q.coef % 10) + 1]>>

\* str.replace(old, new) for single characters
Replace(str, old, new) ==
    [k \in 1..Len(str) |-> IF str[k] = old THEN new ELSE str[k]]

\* the literal appended on line 54: a space, then the three characters
\* U+00E2, U+201A, U+00AC that the source file holds
CurrencySuffix == <<" ", "U+00E2", "U+201A", "U+00AC">>

eur_fmt(v) ==
    LET q == Quantize(v, Dec001)
        s1 == FormatGrouped2f(q)
        s2 == Replace(Replace(Replace(s1, ",", "X"), ".", ","), "X", ".")
    IN  s2 \o CurrencySuffix

----------------------------------------------------------------------------
(* os.path (POSIX) *)

\* str.rfind(c) + 1: the last position of c, 0 when absent
RECURSIVE RFind(_, _)
RFind(str, c) ==
    IF str = <<>> THEN 0
    ELSE IF str[Len(str)] = c THEN Len(str)
    ELSE RFind(SubSeq(str, 1, Len(str) - 1), c)

\* os.path.basename
Basename(p) == SubSeq(p, RFind(p, "/") + 1, Len(p))

\* os.path.splitext: the extension starts at the last dot of the last
\* component, unless only dots precede it there
Splitext(p) ==
    LET sep == RFind(p, "/")
        dot == RFind(p, ".")
    IN  IF dot > sep /\ \E k \in (sep + 1)..(dot - 1) : p[k] # "."
        THEN <<SubSeq(p, 1, dot - 1), SubSeq(p, dot, Len(p))>>
        ELSE <<p, <<>>>>

\* str.rstrip("/")
RECURSIVE RStripSlash(_)
RStripSlash(p) ==
    IF p # <<>> /\ p[Len(p)] = "/" THEN RStripSlash(SubSeq(p, 1, Len(p) - 1)) ELSE p

\* os.path.dirname
Dirname(p) ==
    LET head == SubSeq(p, 1, RFind(p, "/"))
    IN  IF RStripSlash(head) = <<>> THEN head ELSE RStripSlash(head)

\* os.path.join of two parts
Join(a, b) ==
    IF b # <<>> /\ b[1] = "/" THEN b
    ELSE IF a = <<>> \/ a[Len(a)] = "/" THEN a \o b
    ELSE a \o <<"/">> \o b

\* str.split("/")
RECURSIVE SplitSlash(_)
SplitSlash(p) ==
    LET k == RFind(p, "/")
    IN  IF k = 0 THEN <<p>>
        ELSE Append(SplitSlash(SubSeq(p, 1, k - 1)), SubSeq(p, k + 1, Len(p)))

\* the loop of os.path.normpath over the components of an absolute path
RECURSIVE NormComps(_, _)
NormComps(comps, acc) ==
    IF comps = <<>> THEN acc
    ELSE LET c == Head(comps)
         IN  IF c = <<>> \/ c = <<".">> THEN NormComps(Tail(comps), acc)
             ELSE IF c = <<".", ".">>
                  THEN NormComps(Tail(comps),
                                 IF acc = <<>> THEN acc
                                 ELSE SubSeq(acc, 1, Len(acc) - 1))
                  ELSE NormComps(Tail(comps), Append(acc, c))

RECURSIVE JoinSlash(_)
JoinSlash(comps) ==
    IF comps = <<>> THEN <<>>
    ELSE <<"/">> \o Head(comps) \o JoinSlash(Tail(comps))

\* os.path.normpath of an absolute path
Normpath(p) ==
    LET comps == NormComps(SplitSlash(p), <<>>)
    IN  IF comps = <<>> THEN <<"/">> ELSE JoinSlash(comps)

\* os.getcwd()
Cwd == <<"/", "d", "1">>

\* os.path.abspath
Abspath(p) == Normpath(IF p # <<>> /\ p[1] = "/" THEN p ELSE Join(Cwd, p))

PdfSuffix == <<"_", "R", "i", "e", "p", "i", "l", "o", "g", "o", "_", "G", "a", "r", "a", "n", "z", "i", "e", ".", "p", "d", "f">>

\* mutant: the extension is kept in the name
output_path_for_keepExt(txt_path) ==
    Join(Dirname(Abspath(txt_path)), Basename(txt_path) \o PdfSuffix)

output_path_for(txt_path) ==
    LET base == Splitext(Basename(txt_path))[1]
        d == Dirname(Abspath(txt_path))
        directory == IF d = <<>> THEN Cwd ELSE d
    IN  Join(directory, base \o PdfSuffix)

----------------------------------------------------------------------------
(* build_pdf *)

RECURSIVE SumTotaleJob(_)
SumTotaleJob(rows) ==
    IF rows = <<>> THEN 0
    ELSE rows[1].TOTALE_JOB + SumTotaleJob(Tail(rows))

\* line 57
Totale(rows) == SumTotaleJob(rows)

\* line 58
Iva(tot) == Quantize(DecMul(DecimalOfInt(tot), Dec022), Dec001)

\* line 59
Ivato(tot, tax) == Quantize(DecAdd(DecimalOfInt(tot), tax), Dec001)

\* what doc.build writes: the table rows and the totals block
Document(rows, tot, tax, gross) ==
    [table |-> rows,
     totals |-> <<IntToStr(tot), eur_fmt(tax), eur_fmt(gross)>>]

----------------------------------------------------------------------------
(* The inputs: report lines, texts, paths and the files on disk.           *)

RECURSIVE JoinWith(_, _)
JoinWith(parts, sep) ==
    IF parts = <<>> THEN <<>>
    ELSE IF Len(parts) = 1 THEN parts[1]
    ELSE parts[1] \o sep \o JoinWith(Tail(parts), sep)

LineFirst == <<"0", "0", "0", "0", "1", "2", "3", " ", "0", "0", "1", " ", "1", " ", "1", "0", "0">>

LineDuplicate == <<"0", "0", "0", "0", "1", "2", "3", " ", "0", "0", "1", " ", "1", " ", "9", "9", "9">>

LineSecond == <<"0", "0", "0", "0", "1", "2", "3", " ", "0", "0", "2", " ", "1", " ", "5", "0">>

\* suffix "01": the sort key of LineFirst, another deduplication key
LineSameSortKey == <<"0", "0", "0", "0", "1", "2", "3", " ", "0", "1", " ", "1", " ", "1">>

LineNegative == <<"0", "0", "0", "0", "0", "4", "5", " ", "1", "0", " ", "0", "1", " ", "-", "5", "0">>

LineNine == <<"0", "0", "0", "0", "0", "4", "5", " ", "9", " ", "1", " ", "2", "5">>

\* three fields only
LinePartial == <<"0", "0", "0", "0", "1", "2", "3", " ", "0", "0", "2", " ", "1">>

LineHeader == <<"T", "O", "T", " ", "1", "2">>

LineBlank == <<>>

\* the last field runs into a letter: no word boundary
LineNoBoundary == <<"0", "0", "0", "0", "1", "2", "3", " ", "3", " ", "2", " ", "5", "x">>

\* leading blank, job "01", a fraction after the last field
LineFraction == <<" ", "0", "0", "0", "0", "1", "2", "3", " ", "0", "0", "1", " ", "0", "1", " ", "8", ".", "5">>

ReportLines ==
    {LineFirst, LineDuplicate, LineSecond, LineSameSortKey, LineNegative,
     LineNine, LinePartial, LineHeader, LineBlank, LineNoBoundary, LineFraction}

\* the texts of at most MaxLines lines
Texts ==
    {JoinWith(ls, <<"\n">>) :
        ls \in UNION {[1..n -> ReportLines] : n \in 0..MaxLines}}

ScenarioText == JoinWith(<<LineFirst, LineDuplicate, LineSecond>>, <<"\n">>)

PathReport == <<"/", "d", "1", "/", "a", ".", "t", "x", "t">>

PathSameStem == <<"/", "d", "1", "/", "a", ".", "d", "a", "t">>

PathRelative == <<"b", ".", "t", "x", "t">>

PathReadOnlyDir == <<"/", "d", "2", "/", "c", ".", "v", "2", ".", "t", "x", "t">>

PathMissing == <<"/", "d", "1", "/", "g", "h", "o", "s", "t", ".", "t", "x", "t">>

PathDotFile == <<"/", "d", "1", "/", ".", ".", "/", "d", "1", "/", ".", "r", "c">>

\* the candidates for sys.argv[1:]
ArgPaths ==
    {PathReport, PathSameStem, PathRelative, PathReadOnlyDir, PathMissing,
     PathDotFile}

\* the files of a batch run
BatchFiles ==
    (PathReport :> ScenarioText)
    @@ (PathSameStem :> LineNegative)
    @@ (<<"/", "d", "1", "/", "b", ".", "t", "x", "t">> :> LineHeader)
    @@ (PathReadOnlyDir :> LineNine)
    @@ (<<"/", "d", "1", "/", ".", "r", "c">> :> JoinWith(<<LineSameSortKey, LineFirst>>, <<"\n">>))

\* directories in which no file can be created
ReadOnlyDirs == {<<"/", "d", "2">>}

\* a document left by an earlier run
OldDocument == [table |-> <<>>, totals |-> <<>>]

NoDocs == <<>>

OldDocs ==
    (<<"/", "d", "1", "/", "b", "_", "R", "i", "e", "p", "i", "l", "o", "g", "o", "_", "G", "a", "r", "a", "n", "z", "i", "e", ".", "p", "d", "f">> :> OldDocument)
    @@ (<<"/", "d", "1", "/", "a", "_", "R", "i", "e", "p", "i", "l", "o", "g", "o", "_", "G", "a", "r", "a", "n", "z", "i", "e", ".", "p", "d", "f">> :> OldDocument)

\* mutant: the arguments are not filtered
IsFile_any(p) == TRUE

\* os.path.isfile
IsFile(p) == Abspath(p) \in DOMAIN fs

\* f.read() of open(path)
ReadText(p) == fs[Abspath(p)]

\* the arguments of eur_fmt that are generated
FmtInputs ==
    {Decimal(0, 1000, 0), Decimal(0, 0, 0), Decimal(1, 61, 0),
     Decimal(0, 12345, 0 - 1), Decimal(1, 1234567895, 0 - 3)}
    \cup {Decimal(sg, cf, 0 - e) : sg \in 0..1, cf \in 0..MaxFmtCoef, e \in 0..3}

ZeroDec == Decimal(0, 0, 0)

----------------------------------------------------------------------------
(* The program. *)

Idle ==
    /\ files = <<>>
    /\ i = 0
    /\ created = <<>>
    /\ stdout = <<>>
    /\ exit = 0 - 1
    /\ err = ""
    /\ matches = <<>>
    /\ df = <<>>
    /\ out_pdf = <<>>
    /\ totale = 0
    /\ iva = ZeroDec
    /\ ivato = ZeroDec
    /\ calls = <<>>
    /\ s = <<>>

\* a batch of at most MaxArgs arguments over the files of BatchFiles
InitBatch ==
    /\ argv \in UNION {[1..n -> ArgPaths] : n \in 0..MaxArgs}
    /\ fs = BatchFiles
    /\ docs \in {NoDocs, OldDocs}
    /\ pc = "main"
    /\ val = ZeroDec
    /\ Idle

\* one report whose text is any of Texts
InitText ==
    /\ argv = <<PathReport>>
    /\ fs \in {(PathReport :> t) : t \in Texts}
    /\ docs = NoDocs
    /\ pc = "main"
    /\ val = ZeroDec
    /\ Idle

Init == InitBatch \/ InitText

\* [p for p in sys.argv[1:] if os.path.isfile(p)]
ExistingFiles(args) == SelectSeq(args, IsFile)

\* main, lines 115 to 119
Main_Start ==
    /\ pc = "main"
    /\ files' = ExistingFiles(argv)
    /\ IF files' = <<>>
       THEN /\ stdout' = Append(stdout, <<"usage">>)
            /\ pc' = "done"
            /\ exit' = 0
            /\ UNCHANGED <<created, i>>
       ELSE /\ created' = <<>>
            /\ i' = 1
            /\ pc' = "loop"
            /\ UNCHANGED <<stdout, exit>>
    /\ UNCHANGED <<argv, fs, docs, err, matches, df, out_pdf, totale, iva,
                   ivato, calls, val, s>>

\* the next iteration of the loop of main enters process_file (line 106)
ProcessFile_Begin ==
    /\ pc = "loop"
    /\ i <= Len(files)
    /\ stdout' = Append(stdout, <<"Elaborazione", files[i]>>)
    /\ pc' = "parse_txt"
    /\ UNCHANGED <<argv, fs, docs, files, i, created, exit, err, matches, df,
                   out_pdf, totale, iva, ivato, calls, val, s>>

\* parse_txt, lines 35 to 39: the text holds a match
ParseTxt_FindAll ==
    /\ pc = "parse_txt"
    /\ FindAll(ReadText(files[i])) # <<>>
    /\ matches' = FindAll(ReadText(files[i]))
    /\ calls' = Append(calls, <<"extract", i>>)
    /\ pc' = "normalize"
    /\ UNCHANGED <<argv, fs, docs, files, i, created, stdout, exit, err, df,
                   out_pdf, totale, iva, ivato, val, s>>

\* mutant: an empty match list is passed on instead of raising
ParseTxt_Raise_masked ==
    /\ pc = "parse_txt"
    /\ FindAll(ReadText(files[i])) = <<>>
    /\ matches' = <<>>
    /\ calls' = Append(calls, <<"extract", i>>)
    /\ pc' = "normalize"
    /\ UNCHANGED <<argv, fs, docs, files, i, created, stdout, exit, err, df,
                   out_pdf, totale, iva, ivato, val, s>>

\* parse_txt, lines 35 to 39: no match, ValueError is raised
ParseTxt_Raise ==
    /\ pc = "parse_txt"
    /\ FindAll(ReadText(files[i])) = <<>>
    /\ matches' = <<>>
    /\ calls' = Append(calls, <<"extract", i>>)
    /\ err' = "ValueError"
    /\ pc' = "except"
    /\ UNCHANGED <<argv, fs, docs, files, i, created, stdout, exit, df,
                   out_pdf, totale, iva, ivato, val, s>>

\* parse_txt, lines 40 to 48, then process_file, lines 108 and 109
ParseTxt_Normalize ==
    /\ pc = "normalize"
    /\ df' = Normalized(matches)
    /\ calls' = Append(calls, <<"normalize", i>>)
    /\ stdout' = Append(stdout, <<"Righe estratte", Len(df')>>)
    /\ out_pdf' = output_path_for(files[i])
    /\ pc' = "build_pdf"
    /\ UNCHANGED <<argv, fs, docs, files, i, created, exit, err, matches,
                   totale, iva, ivato, val, s>>

\* build_pdf, lines 57 to 59
BuildPdf_Totals ==
    /\ pc = "build_pdf"
    /\ totale' = Totale(df)
    /\ iva' = Iva(totale')
    /\ ivato' = Ivato(totale', iva')
    /\ calls' = Append(calls, <<"totals", i>>)
    /\ pc' = "render"
    /\ UNCHANGED <<argv, fs, docs, files, i, created, stdout, exit, err,
                   matches, df, out_pdf, val, s>>

\* build_pdf, lines 61 to 98, then process_file, lines 111 and 112, and
\* created.append of main: the document is written at out_pdf
BuildPdf_Render ==
    /\ pc = "render"
    /\ Dirname(out_pdf) \notin ReadOnlyDirs
    /\ docs' = (out_pdf :> Document(df, totale, iva, ivato)) @@ docs
    /\ calls' = Append(calls, <<"render", i>>)
    /\ stdout' = Append(stdout, <<"PDF generato", out_pdf>>)
    /\ created' = Append(created, out_pdf)
    /\ i' = i + 1
    /\ pc' = "loop"
    /\ UNCHANGED <<argv, fs, files, exit, err, matches, df, out_pdf, totale,
                   iva, ivato, val, s>>

\* build_pdf, line 98: doc.build cannot create the file and raises
BuildPdf_RenderFail ==
    /\ pc = "render"
    /\ Dirname(out_pdf) \in ReadOnlyDirs
    /\ calls' = Append(calls, <<"render", i>>)
    /\ err' = "OSError"
    /\ pc' = "except"
    /\ UNCHANGED <<argv, fs, docs, files, i, created, stdout, exit, matches,
                   df, out_pdf, totale, iva, ivato, val, s>>

\* mutant: the exception is reported and swallowed, the loop goes on
Main_Except_continue ==
    /\ pc = "except"
    /\ stdout' = Append(stdout, <<"ERRORE", files[i], err>>)
    /\ err' = ""
    /\ i' = i + 1
    /\ pc' = "loop"
    /\ UNCHANGED <<argv, fs, docs, files, created, exit, matches, df,
                   out_pdf, totale, iva, ivato, calls, val, s>>

\* main, lines 123 to 125: the diagnostic, then the exception leaves main
\* and the interpreter exits with status 1
Main_Except ==
    /\ pc = "except"
    /\ stdout' = Append(stdout, <<"ERRORE", files[i], err>>)
    /\ pc' = "raised"
    /\ exit' = 1
    /\ UNCHANGED <<argv, fs, docs, files, i, created, err, matches, df,
                   out_pdf, totale, iva, ivato, calls, val, s>>

\* main, lines 126 to 129
Main_Finish ==
    /\ pc = "loop"
    /\ i > Len(files)
    /\ stdout' = Append(stdout, <<"Elaborazione completata">>)
                 \o [k \in 1..Len(created) |-> <<"CREATO", created[k]>>]
    /\ pc' = "done"
    /\ exit' = 0
    /\ UNCHANGED <<argv, fs, docs, files, i, created, err, matches, df,
                   out_pdf, totale, iva, ivato, calls, val, s>>

Next ==
    \/ Main_Start
    \/ ProcessFile_Begin
    \/ ParseTxt_FindAll
    \/ ParseTxt_Raise
    \/ ParseTxt_Normalize
    \/ BuildPdf_Totals
    \/ BuildPdf_Render
    \/ BuildPdf_RenderFail
    \/ Main_Except
    \/ Main_Finish

Spec == Init /\ [][Next]_vars

----------------------------------------------------------------------------
(* eur_fmt on its own: one call on each generated argument.                *)

InitFmt ==
    /\ argv = <<>>
    /\ fs = <<>>
    /\ docs = NoDocs
    /\ pc = "eur_fmt"
    /\ val \in FmtInputs
    /\ Idle

EurFmt_Call ==
    /\ pc = "eur_fmt"
    /\ s' = eur_fmt(val)
    /\ pc' = "returned"
    /\ UNCHANGED <<argv, fs, docs, files, i, created, stdout, exit, err,
                   matches, df, out_pdf, totale, iva, ivato, calls, val>>

NextFmt == EurFmt_Call

SpecFmt == InitFmt /\ [][NextFmt]_vars

----------------------------------------------------------------------------
(* Vocabulary of the properties. *)

\* the text of the file being processed
CurrentText == ReadText(files[i])

\* the lines of a text
RECURSIVE SplitLines(_)
SplitLines(t) ==
    LET k == RFind(t, "\n")
    IN  IF k = 0 THEN <<t>>
        ELSE Append(SplitLines(SubSeq(t, 1, k - 1)), SubSeq(t, k + 1, Len(t)))

\* a line, taken alone, matches the record pattern
LineMatches(l) == ROW_RE(l, 1).ok

\* the records of the lines that match, in input order
RECURSIVE MatchedLineRows(_)
MatchedLineRows(ls) ==
    IF ls = <<>> THEN <<>>
    ELSE (IF LineMatches(ls[1]) THEN <<ToRow(ROW_RE(ls[1], 1).groups)>> ELSE <<>>)
         \o MatchedLineRows(Tail(ls))

LineRows(t) == MatchedLineRows(SplitLines(t))

\* the three sort keys of a record as numbers
NumKey(r) == <<DigitsToNat(r.NUMERO_GARANZIA), DigitsToNat(r.SUFFISSO), r.JOB>>

\* a sorts strictly before b under the three-key comparator
KeyBefore(a, b) ==
    \/ a[1] < b[1]
    \/ a[1] = b[1] /\ a[2] < b[2]
    \/ a[1] = b[1] /\ a[2] = b[2] /\ a[3] < b[3]

\* position in the match list of the first match with the key of record r
FirstMatchOf(r) ==
    CHOOSE k \in 1..Len(matches) :
        /\ DedupKey(ToRow(matches[k])) = DedupKey(r)
        /\ \A j \in 1..(k - 1) : DedupKey(ToRow(matches[j])) # DedupKey(r)

\* a match is the first of the match list with its key
IsFirstOfKey(k) ==
    \A j \in 1..(k - 1) :
        <<matches[j][1], matches[j][2], DigitsToNat(matches[j][3])>>
        # <<matches[k][1], matches[k][2], DigitsToNat(matches[k][3])>>

\* the sum of the last field over the matches that are first of their key
RECURSIVE SumFirstOfKey(_)
SumFirstOfKey(k) ==
    IF k = 0 THEN 0
    ELSE SumFirstOfKey(k - 1)
         + (IF IsFirstOfKey(k) THEN ToNumeric(matches[k][4]) ELSE 0)

\* an amount in cents as the Decimal with two places
Cents(n) == IF n < 0 THEN Decimal(1, 0 - n, 0 - 2) ELSE Decimal(0, n, 0 - 2)

Stages == <<"extract", "normalize", "totals", "render">>

\* the printed lines with a given tag
LinesTagged(tag) ==
    LET Has(l) == l[1] = tag
    IN  SelectSeq(stdout, Has)

\* the paths named by the printed lines with a given tag
PathsTagged(tag) ==
    LET ls == LinesTagged(tag)
    IN  [k \in 1..Len(ls) |-> ls[k][2]]

\* an argument names an existing file
NamesExistingFile(p) == \E q \in DOMAIN fs : q = Abspath(p)

ExistingArgs == SelectSeq(argv, NamesExistingFile)

\* the document of an input file: its records and its totals
DocumentOf(f) ==
    LET rows == Normalized(FindAll(ReadText(f)))
        tot == Totale(rows)
    IN  Document(rows, tot, Iva(tot), Ivato(tot, Iva(tot)))

\* <directory of the input>/<basename without extension>_Riepilogo_Garanzie.pdf
\* for each path of ArgPaths, written out
ExpectedOutput(p) ==
    CASE p = PathReport -> <<"/", "d", "1", "/", "a", "_", "R", "i", "e", "p", "i", "l", "o", "g", "o", "_", "G", "a", "r", "a", "n", "z", "i", "e", ".", "p", "d", "f">>
      [] p = PathSameStem -> <<"/", "d", "1", "/", "a", "_", "R", "i", "e", "p", "i", "l", "o", "g", "o", "_", "G", "a", "r", "a", "n", "z", "i", "e", ".", "p", "d", "f">>
      [] p = PathRelative -> <<"/", "d", "1", "/", "b", "_", "R", "i", "e", "p", "i", "l", "o", "g", "o", "_", "G", "a", "r", "a", "n", "z", "i", "e", ".", "p", "d", "f">>
      [] p = PathReadOnlyDir -> <<"/", "d", "2", "/", "c", ".", "v", "2", "_", "R", "i", "e", "p", "i", "l", "o", "g", "o", "_", "G", "a", "r", "a", "n", "z", "i", "e", ".", "p", "d", "f">>
      [] p = PathMissing -> <<"/", "d", "1", "/", "g", "h", "o", "s", "t", "_", "R", "i", "e", "p", "i", "l", "o", "g", "o", "_", "G", "a", "r", "a", "n", "z", "i", "e", ".", "p", "d", "f">>
      [] p = PathDotFile -> <<"/", "d", "1", "/", ".", "r", "c", "_", "R", "i", "e", "p", "i", "l", "o", "g", "o", "_", "G", "a", "r", "a", "n", "z", "i", "e", ".", "p", "d", "f">>

\* the last position of the batch whose output path is that of position k
LastWriter(k) ==
    CHOOSE j \in k..Len(created) :
        /\ created[j] = created[k]
        /\ \A m \in (j + 1)..Len(created) : created[m] # created[k]

----------------------------------------------------------------------------
(* Properties. *)

\* C1: for a text with at least one matching line, the frame returned by
\* parse_txt holds exactly one record for each key (guarantee number text,
\* suffix text, job integer) of the matched lines, and that record is the
\* first matched line with that key.
C1_OneRecordPerKeyOfMatchedLines ==
    (pc = "build_pdf" /\ LineRows(CurrentText) # <<>>) =>
        LET rows == LineRows(CurrentText)
        IN  /\ \A k \in 1..Len(rows) :
                 Cardinality({j \in 1..Len(df) :
                                DedupKey(df[j]) = DedupKey(rows[k])}) = 1
            /\ \A j \in 1..Len(df) :
                 \E k \in 1..Len(rows) :
                    /\ df[j] = rows[k]
                    /\ \A m \in 1..(k - 1) : DedupKey(rows[m]) # DedupKey(df[j])

\* C2: the frame returned by parse_txt holds the surviving records in
\* non-decreasing order of (guarantee number, suffix, job) compared as
\* numbers, and records whose three keys compare equal stay in input order.
C2_SortedAndStable ==
    pc = "build_pdf" =>
        /\ Len(df) = Cardinality({k \in 1..Len(matches) : IsFirstOfKey(k)})
        /\ \A k \in 1..Len(matches) :
              IsFirstOfKey(k) => \E j \in 1..Len(df) : df[j] = ToRow(matches[k])
        /\ \A k \in 1..(Len(df) - 1) : ~KeyBefore(NumKey(df[k + 1]), NumKey(df[k]))
        /\ \A a \in 1..Len(df) : \A b \in (a + 1)..Len(df) :
              NumKey(df[a]) = NumKey(df[b]) => FirstMatchOf(df[a]) < FirstMatchOf(df[b])

\* C2 witness: the frame holds two records with equal numeric keys and
\* different suffix texts, and the matches were not in sorted order.
C2_Witness ==
    /\ pc = "build_pdf"
    /\ Len(df) >= 3
    /\ \E a \in 1..Len(df) : \E b \in (a + 1)..Len(df) :
          NumKey(df[a]) = NumKey(df[b]) /\ df[a].SUFFISSO # df[b].SUFFISSO
    /\ \E a \in 1..Len(matches) : \E b \in (a + 1)..Len(matches) :
          KeyBefore(NumKey(ToRow(matches[b])), NumKey(ToRow(matches[a])))

\* C3: in build_pdf the total is the exact sum of the job totals of the
\* records kept by the normalization (a dropped duplicate adds nothing), the
\* tax is 22 cents per unit of total and the gross amount 122 cents per unit,
\* for positive, zero and negative totals.
C3_Totals ==
    pc = "render" =>
        /\ totale = SumFirstOfKey(Len(matches))
        /\ iva = Cents(22 * totale)
        /\ ivato = Cents(122 * totale)
        /\ totale = 100 => iva = Decimal(0, 2200, 0 - 2) /\ ivato = Decimal(0, 12200, 0 - 2)
        /\ totale = 0 - 50 => iva = Decimal(1, 1100, 0 - 2) /\ ivato = Decimal(1, 6100, 0 - 2)
        /\ totale = 25 => iva = Decimal(0, 550, 0 - 2)
        /\ totale = 1 => iva = Decimal(0, 22, 0 - 2)

\* C3 witness: a negative total computed from a frame from which a duplicate
\* with another job total was dropped.
C3_Witness ==
    /\ pc = "render"
    /\ totale < 0
    /\ Len(df) < Len(matches)
    /\ \E k \in 1..Len(matches) : ~IsFirstOfKey(k) /\ ToNumeric(matches[k][4]) # 0

\* C4: parse_txt raises the no-valid-records error exactly when no line of
\* the file matches the record pattern; otherwise it returns a non-empty
\* frame.
C4_RaisesIffNoLineMatches ==
    /\ (pc = "except" /\ err = "ValueError") => LineRows(CurrentText) = <<>>
    /\ pc = "normalize" => LineRows(CurrentText) # <<>>
    /\ pc = "build_pdf" => df # <<>>

\* C5: when the file at position i fails, the diagnostic naming it is the
\* last line printed, no later file is processed, the final lines are never
\* printed, the exit status is not 0, and the files before position i were
\* processed completely and in argument order.
C5_FailFast ==
    /\ pc = "raised" =>
          /\ stdout[Len(stdout)] = <<"ERRORE", files[i], err>>
          /\ exit # 0
          /\ LinesTagged("Elaborazione completata") = <<>>
          /\ LinesTagged("CREATO") = <<>>
          /\ PathsTagged("Elaborazione") = SubSeq(files, 1, i)
          /\ \A n \in 1..Len(calls) : calls[n][2] <= i
          /\ \A k \in 1..(i - 1) : \A j \in 1..4 :
                calls[4 * (k - 1) + j] = <<Stages[j], k>>
          /\ Len(created) = i - 1
          /\ \A k \in 1..(i - 1) :
                created[k] = ExpectedOutput(files[k]) /\ created[k] \in DOMAIN docs
          /\ ~ENABLED Next
    /\ LinesTagged("ERRORE") # <<>> =>
          /\ pc \in {"raised"}
          /\ exit = 1

\* C5 witness: the second of three files has failed.
C5_Witness ==
    /\ pc = "raised"
    /\ i = 2
    /\ Len(files) = 3

\* C6: after a run in which every file was processed, each input file has
\* its own document at the derived path, holding its records and totals, and
\* the printed list of created paths has one entry per file, in order.
C6_OwnDocumentPerFile ==
    (pc = "done" /\ files # <<>>) =>
        /\ Len(created) = Len(files)
        /\ PathsTagged("CREATO") = created
        /\ \A k \in 1..Len(files) :
              /\ created[k] = ExpectedOutput(files[k])
              /\ docs[created[k]] = DocumentOf(files[k])

\* C6 amended: after a run in which every file was processed, the document
\* at each derived path holds the records and totals of the last file of the
\* batch with that derived path (so each file has its own document when no
\* two files share directory and basename without extension), and the
\* printed list of created paths has one entry per file, in order.
C6_DocumentOfLastWriter ==
    (pc = "done" /\ files # <<>>) =>
        /\ Len(created) = Len(files)
        /\ PathsTagged("CREATO") = created
        /\ \A k \in 1..Len(files) :
              /\ created[k] = ExpectedOutput(files[k])
              /\ docs[created[k]] = DocumentOf(files[LastWriter(k)])
              /\ (\A j \in 1..Len(files) : j # k => created[j] # created[k])
                    => docs[created[k]] = DocumentOf(files[k])

\* C6 witness: a finished batch of three files, two of which derive the
\* same output path.
C6_Witness ==
    /\ pc = "done"
    /\ Len(files) = 3
    /\ created[1] = created[3]
    /\ files[1] # files[3]
    /\ created[2] # created[1]

C7_NoneExists ==
    pc = "done" /\ argv # <<>> /\ ExistingArgs = <<>>

\* C8: eur_fmt gives the amount with "." between thousands, "," before two
\* decimals, a space and the euro sign: 1000 gives "1.000,00 EUR-sign", 0
\* gives "0,00 EUR-sign", -61 gives "-61,00 EUR-sign", 1234.5 gives
\* "1.234,50 EUR-sign".
C8_EurFmtExamples ==
    pc = "returned" =>
        /\ val = Decimal(0, 1000, 0) => s = <<"1", ".", "0", "0", "0", ",", "0", "0", " ">> \o <<"U+20AC">>
        /\ val = Decimal(0, 0, 0) => s = <<"0", ",", "0", "0", " ">> \o <<"U+20AC">>
        /\ val = Decimal(1, 61, 0) => s = <<"-", "6", "1", ",", "0", "0", " ">> \o <<"U+20AC">>
        /\ val = Decimal(0, 12345, 0 - 1) => s = <<"1", ".", "2", "3", "4", ",", "5", "0", " ">> \o <<"U+20AC">>

\* C9: in the scenario of the three lines the extractor finds 2 raw matches
\* before deduplication.
C9_TwoRawMatches ==
    (pc = "normalize" /\ CurrentText = ScenarioText) => Len(matches) = 2

\* C9 amended: in the scenario of the three lines the extractor finds 3 raw
\* matches before deduplication, and the normalizer yields 2 records,
\* (0000123, 001, 1, 100) then (0000123, 002, 1, 50), with total 150, tax
\* 33.00 and total with tax 183.00.
C9_Scenario ==
    (pc \in {"normalize", "build_pdf", "render"} /\ CurrentText = ScenarioText) =>
        /\ Len(matches) = 3
        /\ pc \in {"build_pdf", "render"} =>
              df = << [NUMERO_GARANZIA |-> <<"0", "0", "0", "0", "1", "2", "3">>,
                       SUFFISSO |-> <<"0", "0", "1">>,
                       JOB |-> 1, TOTALE_JOB |-> 100],
                      [NUMERO_GARANZIA |-> <<"0", "0", "0", "0", "1", "2", "3">>,
                       SUFFISSO |-> <<"0", "0", "2">>,
                       JOB |-> 1, TOTALE_JOB |-> 50] >>
        /\ pc = "render" =>
              /\ totale = 150
              /\ iva = Decimal(0, 3300, 0 - 2)
              /\ ivato = Decimal(0, 18300, 0 - 2)

\* C9 witness: the totals of the scenario have been computed.
C9_Witness ==
    /\ pc = "render"
    /\ CurrentText = ScenarioText
    /\ totale = 150

\* the stages entered for the file at position k, in order
StagesOf(k) ==
    LET Of(c) == c[2] = k
        cs == SelectSeq(calls, Of)
    IN  [n \in 1..Len(cs) |-> cs[n][1]]

C10_State ==
    /\ \A k \in 1..Len(files) : StagesOf(k) = SubSeq(Stages, 1, Len(StagesOf(k)))
    /\ (pc \in {"except", "raised"} /\ err = "ValueError") =>
          /\ StagesOf(i) = <<"extract">>
          /\ Len(created) = i - 1
          /\ \A p \in DOMAIN docs :
                \/ docs[p] = OldDocument
                \/ \E k \in 1..(i - 1) : p = created[k] /\ docs[p] = DocumentOf(files[k])
    /\ err # "" => pc \in {"except", "raised"}

C10_Step ==
    /\ (pc = "parse_txt" /\ FindAll(CurrentText) = <<>>) =>
          /\ pc' = "except"
          /\ err' = "ValueError"
          /\ docs' = docs
    /\ pc \in {"except", "raised"} => docs' = docs
    /\ docs' # docs =>
          /\ pc = "render"
          /\ StagesOf(i) = <<"extract", "normalize", "totals">>
          /\ \A p \in DOMAIN docs : p # out_pdf => (p \in DOMAIN docs' /\ docs'[p] = docs[p])

\* C10: for each file the stages run in the order extract, normalize,
\* totals, render; when extraction fails the renderer is not entered for
\* that file, no document is created or overwritten (the documents on disk
\* stay as they were) and the failure reaches the handler of the caller.
C10_StagesInOrderNoMasking == [](C10_State) /\ [][C10_Step]_vars

\* C10 witness: extraction has failed for a file at whose derived output
\* path a document exists.
C10_Witness ==
    /\ pc = "raised"
    /\ err = "ValueError"
    /\ output_path_for(files[i]) \in DOMAIN docs
    /\ i >= 2

====
